---- MODULE Spec2Model ----
(***************************************************************************)
(* einsteinpy/symbolic/tensor.py: index configurations, the configuration  *)
(* change by contraction with a metric, Tensor and BaseRelativityTensor.   *)
(*                                                                         *)
(* A Python str is a sequence of one-character strings.  A symbolic        *)
(* expression is a linear form over the symbols, one integer coefficient   *)
(* per atom ("1" is the constant term); a linear form is its own normal    *)
(* form, so symbolic equality is equality.  A sympy Array is its rank and  *)
(* its entries by index tuple; every axis has extent Dim.                  *)
(***************************************************************************)
EXTENDS Integers, Sequences, FiniteSets, TLC

\* ------------------------------------------------------------- bounds
MaxRank == 3
MaxLen == 3
Dim == 2
MaxOps == 2

\* ------------------------------------------------- symbolic expressions
Symbols == {"M", "a", "r", "t"}
Atoms == Symbols \cup {"1"}

\* Python's order of the symbols' names (str comparison, "M" < "a" < "r" < "t").
NameOrder == <<"M", "a", "r", "t">>

NameKey(s) == CHOOSE k \in 1..Len(NameOrder) : NameOrder[k] = s

Const(k) == [s \in Atoms |-> IF s = "1" THEN k ELSE 0]

Sym(x) == [s \in Atoms |-> IF s = x THEN 1 ELSE 0]

ExprAdd(e, f) == [s \in Atoms |-> e[s] + f[s]]

\* The product of a number (an expression with no symbol) and an expression.
ExprMul(k, e) == [s \in Atoms |-> k["1"] * e[s]]

\* expr.subs(old, new): every occurrence of the symbol old becomes new.
ExprSubs(e, old, new) ==
  [s \in Atoms |-> (IF s = old THEN 0 ELSE e[s]) + e[old] * new[s]]

ExprFreeSymbols(e) == {s \in Symbols : e[s] # 0}

\* ------------------------------------------------------------- arrays
Idx(n) == [1..n -> 1..Dim]

NoArray == [rank |-> -1, data |-> <<>>]

shape(t) == [k \in 1..t.rank |-> Dim]

\* sympy.tensorproduct(a, b): the axes of a, then the axes of b.
tensorproduct(a, b) ==
  [rank |-> a.rank + b.rank,
   data |-> [idx \in Idx(a.rank + b.rank) |->
               ExprMul(a.data[[k \in 1..a.rank |-> idx[k]]],
                       b.data[[k \in 1..b.rank |-> idx[a.rank + k]]])]]

\* The index of t that has k on the axes p < q (0-based) and the entries of
\* idx, in order, on the other axes.
Expand(idx, p, q, k) ==
  [j \in 1..(Len(idx) + 2) |->
     IF j = p + 1 \/ j = q + 1 THEN k
     ELSE IF j < p + 1 THEN idx[j]
     ELSE IF j < q + 1 THEN idx[j - 1]
     ELSE idx[j - 2]]

\* The sum of t's entries over k = 1..n on the contracted axes.
RECURSIVE ContractSum(_, _, _, _, _)
ContractSum(t, idx, p, q, n) ==
  IF n = 0 THEN Const(0)
  ELSE ExprAdd(ContractSum(t, idx, p, q, n - 1), t.data[Expand(idx, p, q, n)])

\* sympy.tensorcontraction(t, (p, q)) for p < q: an axis that t does not have
\* is an IndexError.
ContractionFails(t, p, q) == ~(0 <= p /\ p < q /\ q < t.rank)

tensorcontraction(t, p, q) ==
  [rank |-> t.rank - 2,
   data |-> [idx \in Idx(t.rank - 2) |-> ContractSum(t, idx, p, q, Dim)]]

\* sympy.simplify of an array: every entry in normal form, which a linear
\* form already is.
simplify(t) == [rank |-> t.rank, data |-> [idx \in DOMAIN t.data |-> t.data[idx]]]

\* list.pop(i) and list.insert(pos, v) on a list of axis numbers, i 0-based.
ListPop(l, i) == [k \in 1..(Len(l) - 1) |-> IF k <= i THEN l[k] ELSE l[k + 1]]

ListInsert(l, pos, v) ==
  [k \in 1..(Len(l) + 1) |->
     IF k <= pos THEN l[k] ELSE IF k = pos + 1 THEN v ELSE l[k - 1]]

\* np.moveaxis(t, source, dest): axis source[k] of t becomes axis dest[k].
moveaxis(t, source, dest) ==
  [rank |-> t.rank,
   data |-> [idx \in Idx(t.rank) |->
               t.data[[p \in 1..t.rank |->
                         idx[dest[CHOOSE k \in 1..t.rank : source[k] = p - 1] + 1]]]]]

\* ------------------------------------------------------ configurations
\* A Python value given as a configuration: a str, a list of characters or None.
Str(v) == [tag |-> "str", val |-> v]

IsStr(config) == config.tag = "str"

\* len(config): None has no length (TypeError).
HasLen(config) == config.tag \in {"str", "list"}

\* The loop of _config_checker from character k on.
RECURSIVE CheckFrom(_, _)
CheckFrom(val, k) ==
  IF k > Len(val) THEN TRUE
  ELSE IF (~(val[k] = "l")) /\ (~(val[k] = "u")) THEN FALSE
  ELSE CheckFrom(val, k + 1)

\* _config_checker without its isinstance test.
_config_checker_NoTypeTest(config) == CheckFrom(config.val, 1)

_config_checker(config) ==
  IF ~IsStr(config) THEN FALSE ELSE CheckFrom(config.val, 1)

Min(a, b) == IF a <= b THEN a ELSE b

_difference_list(newconfig, oldconfig) ==
  [k \in 1..Min(Len(newconfig), Len(oldconfig)) |->
     IF newconfig[k] = oldconfig[k] THEN 0
     ELSE IF newconfig[k] = "u" THEN 1
     ELSE -1]

\* ------------------------------------------------------------- metric
\* The metric collaborator: lower_config().tensor() is the covariant form and
\* lower_config().inv().tensor() its matrix inverse.  "sym" is the metric
\* g[a][b] = min(a, b), "tri" the unit upper triangular matrix of ones.
MetricIds == {"sym", "tri"}

lower_config_tensor(m) ==
  [rank |-> 2,
   data |-> [idx \in Idx(2) |->
               IF m = "sym" THEN Const(Min(idx[1], idx[2]))
               ELSE Const(IF idx[1] <= idx[2] THEN 1 ELSE 0)]]

lower_config_inv_tensor(m) ==
  [rank |-> 2,
   data |-> [idx \in Idx(2) |->
               IF m = "sym"
               THEN Const(IF idx[1] = idx[2] THEN (IF idx[1] = Dim THEN 1 ELSE 2)
                          ELSE IF idx[1] - idx[2] \in {-1, 1} THEN -1
                          ELSE 0)
               ELSE Const(IF idx[1] = idx[2] THEN 1
                          ELSE IF idx[2] = idx[1] + 1 THEN -1
                          ELSE 0)]]

\* met_dict with the two metric forms under each other's key.
met_dict_Swapped(m) ==
  [action \in {-1, 1} |->
     IF action = 1 THEN lower_config_tensor(m) ELSE lower_config_inv_tensor(m)]

met_dict(m) ==
  [action \in {-1, 1} |->
     IF action = -1 THEN lower_config_tensor(m) ELSE lower_config_inv_tensor(m)]

\* ----------------------------------------------------- _change_config
\* The reshuffle left out: every axis stays where the contraction put it.
ReshuffleDest_Identity(n, i) == [p \in 1..n |-> p - 1]

\* The destination list of the reshuffle: range(n) with i popped and put first.
ReshuffleDest(n, i) == ListInsert(ListPop([p \in 1..n |-> p - 1], i), 0, i)

\* One pass of the loop body for axis i with a nonzero action: the contraction
\* of the product's axes 1 and 2 + i, simplified, then the reshuffle.
ContractAxis(met, t, i) ==
  LET c == simplify(tensorcontraction(tensorproduct(met, t), 1, 2 + i))
  IN moveaxis(c, [p \in 1..Len(shape(c)) |-> p - 1], ReshuffleDest(Len(shape(c)), i))

\* The loop of chain_config_change from position i (0-based) on; steps holds
\* one record per contraction done.
RECURSIVE ChainFrom(_, _, _, _, _)
ChainFrom(t, mets, difflist, i, steps) ==
  IF i >= Len(difflist) THEN [err |-> "", arr |-> t, steps |-> steps]
  ELSE IF difflist[i + 1] = 0 THEN ChainFrom(t, mets, difflist, i + 1, steps)
  ELSE IF ContractionFails(tensorproduct(mets[difflist[i + 1]], t), 1, 2 + i)
    THEN [err |-> "IndexError", arr |-> NoArray, steps |-> steps]
  ELSE LET u == ContractAxis(mets[difflist[i + 1]], t, i)
       IN ChainFrom(u, mets, difflist, i + 1,
                    Append(steps, [axis |-> i, action |-> difflist[i + 1],
                                   after |-> u]))

\* The opening check with the lengths compared and the checker not called.
ConfigAccepted_LengthOnly(tensor, newconfig) ==
  Len(newconfig.val) = Len(tensor.config)

\* The check that opens _change_config.
ConfigAccepted(tensor, newconfig) ==
  Len(newconfig.val) = Len(tensor.config) /\ _config_checker(newconfig)

_change_config(tensor, metric, newconfig) ==
  IF ~HasLen(newconfig)
    THEN [err |-> "TypeError", arr |-> NoArray, steps |-> <<>>,
          queried |-> FALSE, difflist |-> <<>>]
  ELSE IF ~ConfigAccepted(tensor, newconfig)
    THEN [err |-> "ValueError", arr |-> NoArray, steps |-> <<>>,
          queried |-> FALSE, difflist |-> <<>>]
  ELSE LET difflist == _difference_list(newconfig.val, tensor.config)
           r == ChainFrom(tensor.arr, met_dict(metric), difflist, 0, <<>>)
       IN [err |-> r.err, arr |-> r.arr, steps |-> r.steps,
           queried |-> TRUE, difflist |-> difflist]

\* ------------------------------------------------------------- Tensor
NoObj == [cls |-> "none", arr |-> NoArray, config |-> <<>>, order |-> -1]

\* sympy.Array(arr) of a nested list or a scalar: the array of its entries.
SympyArray(v) == [rank |-> v.rank, data |-> v.data]

\* Tensor.__init__ falling back to "ll" for a configuration the checker refuses.
TensorInit_DefaultOnBadConfig(arr, config) ==
  IF arr.kind \notin {"list", "tuple", "ndarray", "int", "float", "Expr", "Array"}
    THEN [err |-> "TypeError", obj |-> NoObj, chk |-> <<>>]
  ELSE [err |-> "",
        obj |-> [cls |-> "Tensor",
                 arr |-> IF arr.kind = "Array" THEN arr.val ELSE SympyArray(arr.val),
                 config |-> IF _config_checker(config) THEN config.val ELSE <<"l", "l">>,
                 order |-> IF _config_checker(config) THEN Len(config.val) ELSE 2],
        chk |-> <<[input |-> config, verdict |-> _config_checker(config)]>>]

\* Tensor.__init__(arr, config): chk lists the _config_checker calls made.
TensorInit(arr, config) ==
  IF arr.kind \notin {"list", "tuple", "ndarray", "int", "float", "Expr", "Array"}
    THEN [err |-> "TypeError", obj |-> NoObj, chk |-> <<>>]
  ELSE IF _config_checker(config)
    THEN [err |-> "",
          obj |-> [cls |-> "Tensor",
                   arr |-> IF arr.kind = "Array" THEN arr.val ELSE SympyArray(arr.val),
                   config |-> config.val,
                   order |-> Len(config.val)],
          chk |-> <<[input |-> config, verdict |-> TRUE]>>]
  ELSE [err |-> "TypeError", obj |-> NoObj,
        chk |-> <<[input |-> config, verdict |-> FALSE]>>]

\* The default of Tensor.__init__'s config parameter.
DefaultConfig == Str(<<"l", "l">>)

\* Array.subs(*args): the pairs (old, new) of args applied in order to every entry.
RECURSIVE ExprSubsAll(_, _)
ExprSubsAll(e, args) ==
  IF args = <<>> THEN e
  ELSE ExprSubsAll(ExprSubs(e, args[1][1], args[1][2]), Tail(args))

ArraySubs(t, args) ==
  [rank |-> t.rank, data |-> [idx \in DOMAIN t.data |-> ExprSubsAll(t.data[idx], args)]]

\* Tensor.subs(*args)
TensorSubs(self, args) ==
  TensorInit([kind |-> "Array", val |-> ArraySubs(self.arr, args)], DefaultConfig)

\* ----------------------------------------------- BaseRelativityTensor
\* A Python collection given as syms, variables or functions: its type and its
\* elements (those of a set in the order of their names).
Coll(kind, elems) == [kind |-> kind, elems |-> elems]

NoColl == Coll("None", <<>>)

\* The default of the variables and functions parameters: list().
DefaultList == Coll("list", <<>>)

Range(q) == {q[k] : k \in 1..Len(q)}

\* The orders in which the elements of a set can be iterated.
Orders(S) == {q \in [1..Cardinality(S) -> S] : Range(q) = S}

\* list(c): a list or tuple in its order, a set in an order of Python's choosing.
ListOf(c) == IF c.kind = "set" THEN Orders(Range(c.elems)) ELSE {c.elems}

\* list.sort(key=lambda var: var.name): insertion of each element after the
\* elements whose name is not greater.
RECURSIVE InsertByName(_, _)
InsertByName(q, v) ==
  IF q = <<>> THEN <<v>>
  ELSE IF NameKey(v) < NameKey(q[1]) THEN <<v>> \o q
  ELSE <<q[1]>> \o InsertByName(Tail(q), v)

\* The sort left out: the symbols stay in the order of iteration.
SortByName_Unsorted(q) == q

RECURSIVE SortByName(_)
SortByName(q) ==
  IF q = <<>> THEN <<>>
  ELSE InsertByName(SortByName(SubSeq(q, 1, Len(q) - 1)), q[Len(q)])

\* arr.free_symbols
free_symbols(t) == UNION {ExprFreeSymbols(t.data[idx]) : idx \in DOMAIN t.data}

\* [v for v in it if v not in syms], it the free symbols as iterated
RECURSIVE NotInSyms(_, _)
NotInSyms(it, syms) ==
  IF it = <<>> THEN <<>>
  ELSE IF it[1] \in Range(syms) THEN NotInSyms(Tail(it), syms)
  ELSE <<it[1]>> \o NotInSyms(Tail(it), syms)

\* arr.atoms(AppliedUndef).union(arr.atoms(UndefinedFunction)): a linear form
\* over the symbols holds no undefined function.
function_atoms(t) == {}

NoMeta ==
  [cls |-> "none", syms |-> NoColl, dims |-> -1, variables |-> <<>>,
   functions |-> <<>>, parent_metric |-> "None", name |-> "None"]

\* True when `not variables` holds for the collection.
IsEmpty(c) == Len(c.elems) = 0

\* BaseRelativityTensor.__init__: it is the order in which the free symbols are
\* iterated, vl and fl what list(variables) and list(functions) return, fa the
\* undefined functions as iterated.
BRTInit(arr, syms, config, parent_metric, variables, functions, name, it, vl, fl, fa) ==
  LET base == TensorInit(arr, config)
  IN IF base.err # ""
       THEN [err |-> base.err, obj |-> NoObj, meta |-> NoMeta, chk |-> base.chk]
     ELSE IF syms.kind \notin {"list", "tuple"}
       THEN [err |-> "TypeError", obj |-> NoObj, meta |-> NoMeta, chk |-> base.chk]
     ELSE IF ~(variables.kind \in {"list", "tuple", "set"}
               /\ functions.kind \in {"list", "tuple", "set"})
       THEN [err |-> "TypeError", obj |-> NoObj, meta |-> NoMeta, chk |-> base.chk]
     ELSE [err |-> "",
           obj |-> [base.obj EXCEPT !.cls = "BaseRelativityTensor"],
           meta |-> [cls |-> "BaseRelativityTensor",
                     syms |-> syms,
                     dims |-> Len(syms.elems),
                     variables |-> IF IsEmpty(variables)
                                   THEN SortByName(NotInSyms(it, syms.elems))
                                   ELSE vl,
                     functions |-> IF IsEmpty(functions) THEN fa ELSE fl,
                     parent_metric |-> parent_metric,
                     name |-> name],
           chk |-> base.chk]

\* ------------------------------------------------------------- inputs
\* A numeric array whose entries differ from index to index.
RECURSIVE Code(_, _)
Code(idx, k) == IF k = 0 THEN 0 ELSE idx[k] + (Dim + 1) * Code(idx, k - 1)

NumArr(n) == [rank |-> n, data |-> [idx \in Idx(n) |-> Const(Code(idx, n))]]

\* A symbolic array over the symbols t, r, a and M.
SymArr(n) ==
  [rank |-> n,
   data |-> [idx \in Idx(n) |->
               IF n = 0 THEN ExprAdd(Sym("M"), Sym("t"))
               ELSE IF idx[1] = 1 THEN ExprAdd(Sym("r"), Const(idx[n]))
               ELSE IF idx[n] = 1 THEN ExprAdd(Sym("a"), ExprAdd(Sym("M"), Sym("M")))
               ELSE Sym("t")]]

NoArrIn == [kind |-> "None", val |-> NoArray]

ArrInputs ==
  {[kind |-> IF n = 0 THEN "int" ELSE "list", val |-> NumArr(n)] : n \in 0..MaxRank}
  \cup {[kind |-> IF n = 0 THEN "Expr" ELSE "Array", val |-> SymArr(n)] : n \in 0..MaxRank}
  \cup {NoArrIn}

ValidStrs(n) == {Str(v) : v \in [1..n -> {"u", "l"}]}

ConfigInputs ==
  UNION {ValidStrs(n) : n \in 0..MaxLen}
  \cup {Str(<<"l", "x">>), Str(<<"x">>),
        [tag |-> "list", val |-> <<"u", "l">>], [tag |-> "None", val |-> <<>>]}

\* The new configurations asked of a tensor: every valid one of its length, and
\* one with a foreign character, one longer, one shorter, a list and None.
NewConfigInputs(t) ==
  ValidStrs(Len(t.config))
  \cup {Str(Append(t.config, "u")), Str(Append(t.config, "x")),
        [tag |-> "list", val |-> t.config], [tag |-> "None", val |-> <<>>]}
  \cup (IF t.config = <<>> THEN {}
        ELSE {Str(SubSeq(t.config, 1, Len(t.config) - 1)),
              Str([t.config EXCEPT ![Len(t.config)] = "x"])})

SubsInputs ==
  {<< <<"a", Sym("M")>> >>, << <<"r", Const(2)>> >>,
   << <<"t", Sym("r")>>, <<"r", Const(0)>> >>}

\* -------------------------------------------------------------- state
VARIABLES metric, obj, call, orig, nops, meta

vars == <<metric, obj, call, orig, nops, meta>>

NoCall ==
  [op |-> "none", recv |-> NoObj, arrIn |-> NoArrIn, cfgIn |-> Str(<<>>),
   subsIn |-> <<>>, err |-> "", out |-> NoObj, arr |-> NoArray,
   queried |-> FALSE, difflist |-> <<>>, steps |-> <<>>, chk |-> <<>>,
   symsIn |-> NoColl, varsIn |-> NoColl, varsGiven |-> FALSE, funcsIn |-> NoColl]

Init ==
  /\ metric \in MetricIds
  /\ obj = NoObj
  /\ call = NoCall
  /\ orig = NoObj
  /\ nops = 0
  /\ meta = NoMeta

\* Tensor(arr, config), once: a construction that raises leaves nothing behind,
\* and another attempt would be the first again.
Construct(arr, config) ==
  /\ call.op = "none"
  /\ LET r == TensorInit(arr, config)
     IN /\ obj' = r.obj
        /\ call' = [NoCall EXCEPT !.op = "init", !.arrIn = arr, !.cfgIn = config,
                                  !.err = r.err, !.out = r.obj, !.chk = r.chk]
  /\ orig' = NoObj
  /\ UNCHANGED <<metric, nops, meta>>

\* obj.subs(*args); the caller goes on with the Tensor returned.
Subs(args) ==
  /\ obj # NoObj
  /\ nops < MaxOps
  /\ LET r == TensorSubs(obj, args)
     IN /\ obj' = r.obj
        /\ call' = [NoCall EXCEPT !.op = "subs", !.recv = obj, !.subsIn = args,
                                  !.err = r.err, !.out = r.obj, !.chk = r.chk]
  /\ orig' = NoObj
  /\ nops' = nops + 1
  /\ UNCHANGED <<metric, meta>>

\* The checker calls that _change_config makes on newconfig: one, when len()
\* works and the lengths agree.
ChangeChecks(tensor, newconfig) ==
  IF HasLen(newconfig) /\ Len(newconfig.val) = Len(tensor.config)
  THEN <<[input |-> newconfig, verdict |-> _config_checker(newconfig)]>>
  ELSE <<>>

\* The record of a _change_config call that returned r, and of the Tensor w the
\* caller built from it.
ChangeRecord(tensor, newconfig, r, w) ==
  [NoCall EXCEPT !.op = "change", !.recv = tensor, !.cfgIn = newconfig,
                 !.err = r.err, !.arr = r.arr, !.out = w.obj,
                 !.queried = r.queried, !.difflist = r.difflist, !.steps = r.steps,
                 !.chk = ChangeChecks(tensor, newconfig) \o w.chk]

NotWrapped == [err |-> "", obj |-> NoObj, chk |-> <<>>]

Rewrap(newconfig, r) ==
  IF r.err = "" THEN TensorInit([kind |-> "Array", val |-> r.arr], newconfig)
  ELSE NotWrapped

\* _change_config(obj, metric, newconfig); the caller wraps the array returned
\* in a Tensor with the new configuration and goes on with it.
ChangeConfig(newconfig) ==
  /\ obj # NoObj
  /\ nops < MaxOps
  /\ \E r \in {_change_config(obj, metric, newconfig)} :
       \E w \in {Rewrap(newconfig, r)} :
         /\ obj' = IF r.err = "" THEN w.obj ELSE obj
         /\ call' = ChangeRecord(obj, newconfig, r, w)
         /\ orig' = IF r.err = "" THEN obj ELSE NoObj
  /\ nops' = nops + 1
  /\ UNCHANGED <<metric, meta>>

Next ==
  \/ \E arr \in ArrInputs, config \in ConfigInputs : Construct(arr, config)
  \/ \E args \in SubsInputs : Subs(args)
  \/ \E newconfig \in NewConfigInputs(obj) : ChangeConfig(newconfig)

Spec == Init /\ [][Next]_vars

\* _change_config(obj, metric, newconfig) alone, on the tensor just constructed:
\* it returns an array (or raises) and assigns nothing, so a second call would
\* repeat the first.
CallChangeConfig(newconfig) ==
  /\ obj # NoObj
  /\ call.op = "init"
  /\ \E r \in {_change_config(obj, metric, newconfig)} :
       call' = ChangeRecord(obj, newconfig, r, NotWrapped)
  /\ UNCHANGED <<metric, obj, orig, nops, meta>>

NextCall ==
  \/ \E arr \in ArrInputs, config \in ConfigInputs : Construct(arr, config)
  \/ \E newconfig \in NewConfigInputs(obj) : CallChangeConfig(newconfig)

\* A tensor is constructed and _change_config is called on it.
SpecCall == Init /\ [][NextCall]_vars

\* ---------------------------------- BaseRelativityTensor construction
BRTConfigInputs == {DefaultConfig, Str(<<"u">>), Str(<<"l", "x">>)}

SymsInputs ==
  {Coll("list", <<"t", "r">>), Coll("tuple", <<"r">>), Coll("set", <<"r", "t">>),
   NoColl}

VarInputs ==
  {Coll("list", <<>>), Coll("tuple", <<>>), Coll("set", <<>>),
   Coll("list", <<"a">>), Coll("tuple", <<"a", "M">>), Coll("list", <<"t", "M">>),
   Coll("set", <<"M", "a">>), Coll("str", <<>>), NoColl}

FuncInputs == {Coll("list", <<>>), Coll("list", <<"f">>), Coll("set", <<"f", "g">>), NoColl}

\* BaseRelativityTensor(arr, syms, config, parent_metric, variables, functions):
\* given is FALSE when the caller leaves variables out, and the default is used.
ConstructBRT(arr, syms, config, variables, given, functions) ==
  /\ call.op = "none"
  /\ given \/ variables = DefaultList
  /\ \E it \in Orders(IF arr.kind = "None" THEN {} ELSE free_symbols(arr.val)),
        vl \in ListOf(variables), fl \in ListOf(functions),
        fa \in Orders(function_atoms(arr.val)) :
       \E r \in {BRTInit(arr, syms, config, metric, variables, functions, "None",
                          it, vl, fl, fa)} :
         /\ obj' = r.obj
         /\ meta' = r.meta
         /\ call' = [NoCall EXCEPT !.op = "brt", !.arrIn = arr, !.cfgIn = config,
                                   !.err = r.err, !.out = r.obj, !.chk = r.chk,
                                   !.symsIn = syms, !.varsIn = variables,
                                   !.varsGiven = given, !.funcsIn = functions]
  /\ UNCHANGED <<metric, orig, nops>>

BRTArrInputs == {a \in ArrInputs : a.val.rank <= 2}

NextBRT ==
  \E arr \in BRTArrInputs, syms \in SymsInputs, config \in BRTConfigInputs,
     variables \in VarInputs, given \in BOOLEAN, functions \in FuncInputs :
    ConstructBRT(arr, syms, config, variables, given, functions)

\* A BaseRelativityTensor is constructed.
SpecBRT == Init /\ [][NextBRT]_vars

\* -------------------------------------------------------------- claims
\* What the claims call a valid configuration: a str of 'u' and 'l' only.
OnlyUL(config) ==
  IsStr(config) /\ \A k \in 1..Len(config.val) : config.val[k] \in {"u", "l"}

RecognisedArr(arr) ==
  arr.kind \in {"list", "tuple", "ndarray", "int", "float", "Expr", "Array"}

\* The contraction of axis i (0-based) of t with the second axis of the rank-2
\* array m, entry by entry: the new axis in place i, every other axis in its place.
RECURSIVE DirectSum(_, _, _, _, _)
DirectSum(m, t, idx, i, n) ==
  IF n = 0 THEN Const(0)
  ELSE ExprAdd(DirectSum(m, t, idx, i, n - 1),
               ExprMul(m.data[<<idx[i + 1], n>>], t.data[[idx EXCEPT ![i + 1] = n]]))

DirectContract(m, t, i) ==
  [rank |-> t.rank, data |-> [idx \in Idx(t.rank) |-> DirectSum(m, t, idx, i, Dim)]]

\* The array a recorded step started from.
StepBefore(j) == IF j = 1 THEN call.recv.arr ELSE call.steps[j - 1].after

C3_OrderIsRank ==
  obj # NoObj => (obj.order = Len(obj.config) /\ obj.order = obj.arr.rank)

\* C4: subs returns a Tensor with the receiver's configuration and order.
C4_SubsKeepsConfig ==
  call.op = "subs" =>
    (call.err = "" /\ call.out.config = call.recv.config
     /\ call.out.order = call.recv.order)

\* C5: for every tensor and every valid configuration of the same length the
\* change yields an array, and changing to c2 and back to c1 with the same metric
\* yields the original array.
C5_RoundTrip ==
  /\ (call.op = "change" /\ OnlyUL(call.cfgIn)
        /\ Len(call.cfgIn.val) = Len(call.recv.config))
       => call.err = ""
  /\ (call.op = "change" /\ orig # NoObj /\ call.err = ""
        /\ call.cfgIn.val = orig.config)
       => call.arr = orig.arr

\* Where both changes of a round trip return an array, the second returns the
\* original array.
RoundTripOfCompletedChanges ==
  (call.op = "change" /\ orig # NoObj /\ call.err = ""
     /\ call.cfgIn.val = orig.config)
    => call.arr = orig.arr

\* C6: a new configuration of another length, or one that is not a str of
\* 'u'/'l', makes _change_config raise before the metric is queried and before
\* any contraction; no array is returned and the tensor is unchanged.
C6_RejectedBeforeMetric ==
  (call.op = "change"
     /\ (~OnlyUL(call.cfgIn) \/ Len(call.cfgIn.val) # Len(call.recv.config)))
    => /\ call.err \in {"ValueError", "TypeError"}
       /\ ~call.queried
       /\ call.steps = <<>>
       /\ call.arr = NoArray
       /\ obj = call.recv

\* C6 witness: a new configuration of the right length with a foreign character
\* was refused with ValueError.
C6_ForeignCharacterRefused ==
  /\ call.op = "change"
  /\ Len(call.cfgIn.val) = Len(call.recv.config)
  /\ IsStr(call.cfgIn)
  /\ \E k \in 1..Len(call.cfgIn.val) : call.cfgIn.val[k] = "x"
  /\ call.err = "ValueError"

\* C8: the action list has 0 where old and new agree, +1 where they differ and
\* new is 'u', -1 where they differ and new is 'l'; the engine contracts exactly
\* the axes with a nonzero action, in order, with the inverse metric for +1 and
\* the covariant metric for -1.
C8_ActionsAndMetricForms ==
  /\ _difference_list(<<"u", "l">>, <<"u", "u">>) = <<0, -1>>
  /\ _difference_list(<<"u", "u">>, <<"l", "l">>) = <<1, 1>>
  /\ _difference_list(<<"u", "l">>, <<"u", "l">>) = <<0, 0>>
  /\ (call.op = "change" /\ call.queried) =>
       LET old == call.recv.config
           new == call.cfgIn.val
           d == call.difflist
           changed == {k \in 1..Len(old) : old[k] # new[k]}
       IN /\ Len(d) = Len(old)
          /\ \A k \in 1..Len(old) :
               /\ (d[k] = 0) = (old[k] = new[k])
               /\ (d[k] = 1) = (old[k] # new[k] /\ new[k] = "u")
               /\ (d[k] = -1) = (old[k] # new[k] /\ new[k] = "l")
          /\ \A j \in 1..Len(call.steps) :
               LET s == call.steps[j]
               IN /\ s.axis + 1 \in changed
                  /\ (j > 1 => call.steps[j - 1].axis < s.axis)
                  /\ s.after
                       = DirectContract(IF new[s.axis + 1] = "u"
                                        THEN lower_config_inv_tensor(metric)
                                        ELSE lower_config_tensor(metric),
                                        StepBefore(j), s.axis)
          /\ call.err = ""
               => {call.steps[j].axis + 1 : j \in 1..Len(call.steps)} = changed

\* C8 witness: a change that raised one axis and lowered another.
C8_RaisedAndLowered ==
  /\ call.op = "change"
  /\ call.err = ""
  /\ \E j, k \in 1..Len(call.steps) :
       call.steps[j].action = 1 /\ call.steps[k].action = -1

\* C9: each contraction step leaves the rank unchanged, puts the contracted
\* axis back at its position i and keeps every other axis at its position; the
\* array returned has the rank and the axis order of the input.
C9_AxesKeepTheirPlace ==
  call.op = "change" =>
    /\ \A j \in 1..Len(call.steps) :
         LET s == call.steps[j]
         IN /\ s.after.rank = StepBefore(j).rank
            /\ \E m \in {lower_config_tensor(metric), lower_config_inv_tensor(metric)} :
                 s.after = DirectContract(m, StepBefore(j), s.axis)
    /\ call.err = ""
         => /\ call.arr.rank = call.recv.arr.rank
            /\ call.arr = IF call.steps = <<>> THEN call.recv.arr
                          ELSE call.steps[Len(call.steps)].after

\* C9 witness: a rank-3 array whose three axes were all contracted.
C9_ThreeAxesOfRankThree ==
  /\ call.op = "change"
  /\ call.err = ""
  /\ call.recv.arr.rank = 3
  /\ Len(call.steps) = 3

\* C10: on a rank-0 array the engine contracts nothing and returns the scalar,
\* whatever the stored configuration and the valid new one of its length.
C10_ScalarIsNoOp ==
  (call.op = "change" /\ call.recv.arr.rank = 0 /\ OnlyUL(call.cfgIn)
     /\ Len(call.cfgIn.val) = Len(call.recv.config))
    => (call.err = "" /\ call.steps = <<>> /\ call.arr = call.recv.arr)

\* The variables attribute is the free symbols of the array that are no
\* coordinate symbol, in the order of their names.
AutoVariables ==
  /\ Range(meta.variables) = free_symbols(obj.arr) \ Range(meta.syms.elems)
  /\ \A i, j \in 1..Len(meta.variables) :
       i < j => NameKey(meta.variables[i]) < NameKey(meta.variables[j])

\* The variables attribute holds the elements supplied, those of a list or tuple
\* in the order supplied.
SuppliedVariables ==
  /\ Range(meta.variables) = Range(call.varsIn.elems)
  /\ Len(meta.variables) = Len(call.varsIn.elems)
  /\ call.varsIn.kind \in {"list", "tuple"} => meta.variables = call.varsIn.elems

\* C7 (as amended): variables is auto-computed when the argument is left out or
\* is an empty list, tuple or set, and holds exactly the supplied elements when
\* a non-empty list, tuple or set is supplied.
C7_VariablesAutoWhenEmpty ==
  (call.op = "brt" /\ call.err = "") =>
    IF IsEmpty(call.varsIn) THEN AutoVariables ELSE SuppliedVariables

\* C7 (as stated): variables is auto-computed when the argument is left out, and
\* is exactly the supplied collection whenever one is supplied, an empty one
\* included.
C7_VariablesAsSupplied ==
  (call.op = "brt" /\ call.err = "") =>
    IF call.varsGiven THEN SuppliedVariables ELSE AutoVariables

\* C7 witness: an empty collection was supplied and variables was auto-computed
\* to something else.
C7_EmptySuppliedAutoComputed ==
  /\ call.op = "brt"
  /\ call.err = ""
  /\ call.varsGiven
  /\ IsEmpty(call.varsIn)
  /\ Len(meta.variables) >= 2

====
